---- MODULE Spec2Model ----
(***************************************************************************)
(* Model of the Linux runner of Fedi3:                                     *)
(*   src/app/linux/runner/main.cc            main                          *)
(*   src/app/linux/runner/my_application.h   MyApplication, the factory    *)
(*                                                                         *)
(* main is a straight line of three steps: the factory call that           *)
(* initialises the g_autoptr local `app`, the blocking call of             *)
(* g_application_run, and the automatic-scope cleanup of `app` that runs   *)
(* after the return value has been computed.  The toolkit call is the only *)
(* place where the environment acts: it returns a status, keeps blocking,  *)
(* or ends the process itself.                                             *)
(***************************************************************************)
EXTENDS Integers, Sequences, FiniteSets

\* ---------------------------------------------------------------- bounds
MaxArgs == 2          \* longest argument vector main is started with
MaxStatus == 2        \* statuses the run routine returns: -1 .. MaxStatus
MaxToolkitRefs == 2   \* references the event loop holds at one time
MaxCalls == 6         \* factory calls of the repeated-construction harness

ArgWords == {"fedi3", "--flag"}
ArgVectors == UNION {[1..n -> ArgWords] : n \in 0..MaxArgs}
Statuses == -1..MaxStatus

VARIABLES
    pc,             \* position of main (or "harness" for the factory harness)
    argc, argv,     \* main's parameters
    app,            \* main's g_autoptr local: 0 is NULL, else an instance id
    refs,           \* reference count of every instance ever constructed
    typeOnce,       \* the one-time guard of my_application_get_type
    registrations,  \* calls of the type system's registration so far
    regError,       \* the type system was asked to register the name again
    newCalls,       \* calls of my_application_new
    runCalls,       \* calls of g_application_run
    runArgs,        \* what g_application_run received, <<>> before the call
    toolkitRefs,    \* references currently held by the event loop
    runStatus,      \* what g_application_run returned, <<>> while it has not
    ret,            \* value of main's return expression, <<>> before it
    mainReleases,   \* releases of main's own reference
    exitCode        \* exit status of the process, <<>> while it lives

vars == <<pc, argc, argv, app, refs, typeOnce, registrations, regError,
          newCalls, runCalls, runArgs, toolkitRefs, runStatus, ret,
          mainReleases, exitCode>>

typeVars == <<typeOnce, registrations, regError>>
mainVars == <<argc, argv, app, runCalls, runArgs, toolkitRefs, runStatus,
              ret, mainReleases, exitCode>>

\* ------------------------------------------------------- the type system
\* Registering a type name: a second registration of the same name is the
\* error case of the registration mechanism.
GTypeRegisterStatic ==
    /\ registrations' = registrations + 1
    /\ regError' = (regError \/ registrations >= 1)

\* A get_type that registers on every call, without the one-time guard.
MyApplicationGetTypeUnguarded ==
    /\ GTypeRegisterStatic
    /\ typeOnce' = TRUE

\* my_application_get_type: registers on first use, reuses afterwards.
MyApplicationGetType ==
    IF typeOnce
    THEN UNCHANGED typeVars
    ELSE /\ GTypeRegisterStatic
         /\ typeOnce' = TRUE

\* my_application_new(): the type is looked up (registered on first use)
\* and one new instance is returned, owned by the caller (one reference).
my_application_new ==
    /\ MyApplicationGetType
    /\ refs' = Append(refs, 1)
    /\ newCalls' = newCalls + 1

\* g_object_unref(i): drops one reference; at zero the instance is gone.
Unref(i) == [refs EXCEPT ![i] = @ - 1]
Ref(i) == [refs EXCEPT ![i] = @ + 1]
Alive(i) == i \in 1..Len(refs) /\ refs[i] > 0
LiveInstances == {i \in 1..Len(refs) : refs[i] > 0}

\* ------------------------------------------------------------------ main
Init ==
    /\ pc = "start"
    /\ argv \in ArgVectors
    /\ argc = Len(argv)
    /\ app = 0
    /\ refs = <<>>
    /\ typeOnce = FALSE
    /\ registrations = 0
    /\ regError = FALSE
    /\ newCalls = 0
    /\ runCalls = 0
    /\ runArgs = <<>>
    /\ toolkitRefs = 0
    /\ runStatus = <<>>
    /\ ret = <<>>
    /\ mainReleases = 0
    /\ exitCode = <<>>

\* main.cc:9 with the factory called twice.
MainNewTwice ==
    /\ pc = "start"
    /\ MyApplicationGetType
    /\ refs' = Append(Append(refs, 1), 1)
    /\ newCalls' = newCalls + 2
    /\ app' = Len(refs) + 2
    /\ pc' = "constructed"
    /\ UNCHANGED <<argc, argv, runCalls, runArgs, toolkitRefs, runStatus,
                   ret, mainReleases, exitCode>>

\* main.cc:9 with the construction left out: app stays NULL.
MainNewSkipped ==
    /\ pc = "start"
    /\ pc' = "constructed"
    /\ UNCHANGED <<argc, argv, app, refs, typeOnce, registrations, regError,
                   newCalls, runCalls, runArgs, toolkitRefs, runStatus, ret,
                   mainReleases, exitCode>>

\* main.cc:9   g_autoptr(MyApplication) app = my_application_new();
MainNew ==
    /\ pc = "start"
    /\ my_application_new
    /\ app' = Len(refs) + 1
    /\ pc' = "constructed"
    /\ UNCHANGED <<argc, argv, runCalls, runArgs, toolkitRefs, runStatus,
                   ret, mainReleases, exitCode>>

\* main.cc:10 with the arguments dropped: g_application_run(app, 0, NULL).
RunEnterNoArgs ==
    /\ pc = "constructed"
    /\ runCalls' = runCalls + 1
    /\ runArgs' = <<[app |-> app, argc |-> 0, argv |-> <<>>]>>
    /\ pc' = "running"
    /\ UNCHANGED <<argc, argv, app, refs, typeOnce, registrations, regError,
                   newCalls, toolkitRefs, runStatus, ret, mainReleases,
                   exitCode>>

\* main.cc:10 with main's reference dropped before the run call.
RunEnterReleased ==
    /\ pc = "constructed"
    /\ runCalls' = runCalls + 1
    /\ runArgs' = <<[app |-> app, argc |-> argc, argv |-> argv]>>
    /\ refs' = IF app # 0 THEN Unref(app) ELSE refs
    /\ mainReleases' = IF app # 0 THEN mainReleases + 1 ELSE mainReleases
    /\ pc' = "running"
    /\ UNCHANGED <<argc, argv, app, typeOnce, registrations, regError,
                   newCalls, toolkitRefs, runStatus, ret, exitCode>>

\* main.cc:10  the call g_application_run(G_APPLICATION(app), argc, argv)
RunEnter ==
    /\ pc = "constructed"
    /\ runCalls' = runCalls + 1
    /\ runArgs' = <<[app |-> app, argc |-> argc, argv |-> argv]>>
    /\ pc' = "running"
    /\ UNCHANGED <<argc, argv, app, refs, typeOnce, registrations, regError,
                   newCalls, toolkitRefs, runStatus, ret, mainReleases,
                   exitCode>>

\* Inside the run call: the event loop (windows, sources) takes a reference
\* on the instance it was handed ...
ToolkitRef ==
    /\ pc = "running"
    /\ toolkitRefs < MaxToolkitRefs
    /\ Alive(runArgs[1].app)
    /\ refs' = Ref(runArgs[1].app)
    /\ toolkitRefs' = toolkitRefs + 1
    /\ UNCHANGED <<pc, argc, argv, app, typeOnce, registrations, regError,
                   newCalls, runCalls, runArgs, runStatus, ret, mainReleases,
                   exitCode>>

\* ... and gives it back.
ToolkitUnref ==
    /\ pc = "running"
    /\ toolkitRefs > 0
    /\ refs' = Unref(runArgs[1].app)
    /\ toolkitRefs' = toolkitRefs - 1
    /\ UNCHANGED <<pc, argc, argv, app, typeOnce, registrations, regError,
                   newCalls, runCalls, runArgs, runStatus, ret, mainReleases,
                   exitCode>>

\* When the event loop decides to quit it has given back every reference
\* it took: nothing but main's scope references the instance afterwards.
ToolkitQuiescent == toolkitRefs = 0

\* main.cc:10 with the status collapsed to a success flag.
RunReturnFlag(r) ==
    /\ pc = "running"
    /\ ToolkitQuiescent
    /\ runStatus' = <<r>>
    /\ ret' = <<IF r = 0 THEN 0 ELSE 1>>
    /\ pc' = "returned"
    /\ UNCHANGED <<argc, argv, app, refs, typeOnce, registrations, regError,
                   newCalls, runCalls, runArgs, toolkitRefs, mainReleases,
                   exitCode>>

\* main.cc:10  the run routine returns r, which is main's return expression.
\* The event loop has given back every reference it took by then.
RunReturn(r) ==
    /\ pc = "running"
    /\ ToolkitQuiescent
    /\ runStatus' = <<r>>
    /\ ret' = <<r>>
    /\ pc' = "returned"
    /\ UNCHANGED <<argc, argv, app, refs, typeOnce, registrations, regError,
                   newCalls, runCalls, runArgs, toolkitRefs, mainReleases,
                   exitCode>>

\* main.cc:10  the toolkit ends the process inside the run call (exit or
\* abort on a fatal error): control never comes back to main, so main's
\* scope is never left and its cleanup never runs.
ToolkitExit(code) ==
    /\ pc = "running"
    /\ exitCode' = <<code>>
    /\ pc' = "killed"
    /\ UNCHANGED <<argc, argv, app, refs, typeOnce, registrations, regError,
                   newCalls, runCalls, runArgs, toolkitRefs, runStatus, ret,
                   mainReleases>>

\* main.cc:11 with the cleanup skipped when the status is not 0.
AutoCleanupOnSuccessOnly ==
    /\ pc = "returned"
    /\ IF app # 0 /\ ret = <<0>>
       THEN /\ refs' = Unref(app)
            /\ mainReleases' = mainReleases + 1
       ELSE UNCHANGED <<refs, mainReleases>>
    /\ exitCode' = ret
    /\ pc' = "done"
    /\ UNCHANGED <<argc, argv, app, typeOnce, registrations, regError,
                   newCalls, runCalls, runArgs, toolkitRefs, runStatus, ret>>

\* main.cc:11 with an extra reference left on the instance.
AutoCleanupLeaking ==
    /\ pc = "returned"
    /\ UNCHANGED <<refs>>
    /\ mainReleases' = IF app # 0 THEN mainReleases + 1 ELSE mainReleases
    /\ exitCode' = ret
    /\ pc' = "done"
    /\ UNCHANGED <<argc, argv, app, typeOnce, registrations, regError,
                   newCalls, runCalls, runArgs, toolkitRefs, runStatus, ret>>

\* main.cc:9,11  the end of main's scope: g_autoptr releases `app` when it
\* is not NULL, then main returns the value computed on line 10.
AutoCleanup ==
    /\ pc = "returned"
    /\ IF app # 0
       THEN /\ refs' = Unref(app)
            /\ mainReleases' = mainReleases + 1
       ELSE UNCHANGED <<refs, mainReleases>>
    /\ exitCode' = ret
    /\ pc' = "done"
    /\ UNCHANGED <<argc, argv, app, typeOnce, registrations, regError,
                   newCalls, runCalls, runArgs, toolkitRefs, runStatus, ret>>

Next ==
    \/ MainNew
    \/ RunEnter
    \/ ToolkitRef
    \/ ToolkitUnref
    \/ \E r \in Statuses : RunReturn(r)
    \/ \E code \in Statuses : ToolkitExit(code)
    \/ AutoCleanup

Spec == Init /\ [][Next]_vars

\* main runs on one thread and nothing else is scheduled: once the run call
\* has returned, the scope exit is the next thing that happens.
FairSpec == Spec /\ WF_vars(AutoCleanup)

\* ------------------------------------------- repeated factory construction
\* A caller that constructs through the factory again and again in one
\* process and drops the instances it was given.
FactoryInit ==
    /\ pc = "harness"
    /\ argv = <<>>
    /\ argc = 0
    /\ app = 0
    /\ refs = <<>>
    /\ typeOnce = FALSE
    /\ registrations = 0
    /\ regError = FALSE
    /\ newCalls = 0
    /\ runCalls = 0
    /\ runArgs = <<>>
    /\ toolkitRefs = 0
    /\ runStatus = <<>>
    /\ ret = <<>>
    /\ mainReleases = 0
    /\ exitCode = <<>>

FactoryCall ==
    /\ pc = "harness"
    /\ newCalls < MaxCalls
    /\ my_application_new
    /\ UNCHANGED <<pc>>
    /\ UNCHANGED mainVars

FactoryUnref(i) ==
    /\ pc = "harness"
    /\ Alive(i)
    /\ refs' = Unref(i)
    /\ UNCHANGED <<pc, newCalls>>
    /\ UNCHANGED typeVars
    /\ UNCHANGED mainVars

FactoryNext ==
    \/ FactoryCall
    \/ \E i \in 1..MaxCalls : FactoryUnref(i)

SpecFactory == FactoryInit /\ [][FactoryNext]_vars

\* ================================================================ claims

\* C1. For every argument list, one execution of main constructs exactly one
\* Application instance through my_application_new and calls the run routine
\* exactly once; at most one instance exists in every reachable state.
C1_OneInstanceOneRun ==
    /\ newCalls <= 1
    /\ runCalls <= 1
    /\ Len(refs) = newCalls
    /\ Cardinality(LiveInstances) <= 1
    /\ pc = "constructed" => (newCalls = 1 /\ runCalls = 0 /\ app = 1)
    /\ pc \in {"running", "returned", "done", "killed"} =>
           (newCalls = 1 /\ runCalls = 1 /\ app = 1)

C1_Witness ==
    pc = "done" /\ argv = <<>> /\ newCalls = 1 /\ runCalls = 1

\* C2. Whatever status r the run routine returns, the value main returns,
\* which is the exit code of the process, is r.
C2_ExitCodeIsRunStatus ==
    /\ pc \in {"returned", "done"} =>
           (\E r \in Statuses : runStatus = <<r>> /\ ret = <<r>>)
    /\ pc = "done" => exitCode = runStatus

C2_Witness ==
    pc = "done" /\ runStatus = <<MaxStatus>> /\ exitCode = <<MaxStatus>>

\* C3. When the run routine returns, main's reference to the instance is
\* released exactly once, after the return of the run routine and before the
\* process ends, for every status; it is never released before or during the
\* run call, during which the instance stays alive.
C3_ReleaseState ==
    /\ mainReleases <= 1
    /\ pc \in {"start", "constructed", "running", "returned"} =>
           mainReleases = 0
    /\ pc \in {"constructed", "running", "returned"} => Alive(app)
    /\ pc = "done" => (mainReleases = 1 /\ runStatus # <<>>)

C3_ReleaseStep ==
    mainReleases' # mainReleases =>
        /\ runStatus # <<>>
        /\ exitCode = <<>>
        /\ mainReleases' = mainReleases + 1
        /\ pc' = "done"

C3_ReleasedOnceAfterRun == []C3_ReleaseState /\ [][C3_ReleaseStep]_vars

C3_Witness ==
    pc = "done" /\ mainReleases = 1 /\ runStatus \notin {<<>>, <<0>>}

\* C4 as stated: no path from the construction of the instance to the end of
\* the process skips the release.
C4_ReleasedOnEveryExit ==
    (exitCode # <<>> /\ newCalls >= 1) => mainReleases = 1

\* C4, amended. The instance is released on every path on which main
\* returns, whatever status the run routine reports (error statuses too); a
\* path on which the toolkit ends the process inside the run call ends
\* without the release.
C4_ReleasedWhenMainReturns ==
    /\ \A r \in Statuses :
           (pc = "done" /\ runStatus = <<r>>) =>
               (mainReleases = 1 /\ ~Alive(app))
    /\ pc = "killed" => (mainReleases = 0 /\ runStatus = <<>>)

C4_Witness ==
    pc = "done" /\ runStatus = <<-1>> /\ mainReleases = 1

\* C5. The run routine receives exactly the argc and argv main received:
\* nothing is added, removed, reordered or rewritten before the call.
C5_ArgsState ==
    runArgs # <<>> =>
        /\ runArgs[1].argc = argc
        /\ runArgs[1].argv = argv
        /\ runArgs[1].argc = Len(runArgs[1].argv)

C5_ArgsForwardedVerbatim ==
    []C5_ArgsState /\ [][argc' = argc /\ argv' = argv]_vars

C5_Witness ==
    /\ pc = "running"
    /\ Len(argv) = MaxArgs
    /\ argv[1] # argv[MaxArgs]
    /\ runArgs[1].argv = argv

\* C6. However often my_application_new is called in one process, the type
\* is registered at most once, on first use; later calls reuse the
\* registration and the registration mechanism never reaches its error state.
C6_RegState ==
    /\ registrations <= 1
    /\ ~regError
    /\ newCalls = 0 => (registrations = 0 /\ ~typeOnce)
    /\ newCalls >= 1 => (registrations = 1 /\ typeOnce)
    /\ Len(refs) = newCalls

C6_RegisteredOnce ==
    []C6_RegState /\ [][registrations' # registrations => newCalls = 0]_vars

C6_Witness ==
    pc = "harness" /\ newCalls >= 2 /\ registrations = 1 /\ ~regError

\* C8. The lifecycle only moves forward through unconstructed, running,
\* terminated: the run routine is entered only once the instance exists,
\* main does not return while the run routine blocks, nothing leads back
\* from a later phase, and main ends exactly when the run routine returns.
Phase ==
    CASE pc = "start" -> 0
      [] pc \in {"constructed", "running", "returned"} -> 1
      [] OTHER -> 2

C8_PhaseState ==
    /\ runCalls >= 1 => (newCalls = 1 /\ app # 0)
    /\ pc \in {"running", "returned"} => Alive(app)
    /\ pc = "running" => runStatus = <<>>
    /\ pc = "done" => runStatus # <<>>
    /\ runStatus # <<>> => pc \in {"returned", "done"}

C8_PhaseStep ==
    /\ Phase' >= Phase
    /\ Phase = 2 => pc' = pc
    /\ pc' = "running" => pc \in {"constructed", "running"}

====
